---- MODULE Spec2Model ----
(***************************************************************************)
(* The layered LoD store of worldsim/src/lodstore/newdata.rs: the key/index *)
(* codec (KeyConvertable), the per-layer DetailStore and IndexStore, the    *)
(* nesting chain of ExampleDelta (levels 13 > 9 > 4 > 0) and the traversal  *)
(* cursor LayerResult with trav / get / mat.                                *)
(*                                                                          *)
(* Further parts: the in-game message handler of the server, the controller *)
(* system, the terrain drawer of the first render pass and plant growth.    *)
(*                                                                          *)
(* A Rust panic (Option::unwrap on None, Vec::insert past the end,          *)
(* unimplemented!()) is the outcome "Fault"; it ends the run.               *)
(***************************************************************************)
EXTENDS Integers, Sequences, FiniteSets, TLC

VARIABLES
    detail,     \* detail[l]: the `detail` field of the layer of level l
    index,      \* index[l]: the `index` field of the layer of level l (l # 13)
    cursor,     \* the live LayerResult, or NoCursor
    res,        \* the last call and what it returned
    inserted,   \* ghost: (level, aligned pos) -> the Detail last inserted there
    ninserts,   \* ghost: the number of insert (or direct store) calls made
    codec,      \* the key/index codec exercised on one key
    chain,      \* the layer types nested so far, outermost first: [struct, L]
    game,       \* server/src/sys/msg/in_game.rs: one client entity and its world
    ctrl,       \* common/sys/src/controller.rs: the controllers and the event bus
    draw,       \* voxygen/src/render/renderer/drawer.rs: one terrain pass
    plants      \* common/src/terrain/sprite.rs: the plant growth data of a chunk

vars == <<detail, index, cursor, res, inserted, ninserts, codec, chain,
          game, ctrl, draw, plants>>

----------------------------------------------------------------------------
(* Bounds of the model *)

MaxLen == 3       \* no Vec of a layer grows beyond this length
MaxInserts == 2   \* insert is called at most this often
MaxStores == 3    \* store is called directly at most this often
MaxDepth == 4     \* no more than this many layers are nested
MaxMsgs == 2      \* in-game messages handled for the client
MaxEvents == 2    \* control events queued on one controller
MaxDraws == 4     \* chunks drawn in one terrain pass
MaxTicks == 2     \* calls of PlantGrowthData::calculate_growth

(* Inputs *)
PosSet == {<<5, 5, 5>>, <<5, 5, 6>>, <<8192, 0, 0>>}
Details == {"A", "B"}
SlotKeys == {0, 1, 4096, 65536}

----------------------------------------------------------------------------
(* ExampleDelta: the levels of the four nested layers, root first *)

LEVEL_ROOT == 13
LEVEL_REGION == 9
LEVEL_CHUNK == 4
LEVEL_LEAF == 0

Levels == {LEVEL_ROOT, LEVEL_REGION, LEVEL_CHUNK, LEVEL_LEAF}
DenseLevels == {LEVEL_REGION, LEVEL_CHUNK, LEVEL_LEAF}

\* Nestable::nested: the level of the layer nested in the layer of level l
nested(l) ==
    CASE l = LEVEL_ROOT -> LEVEL_REGION
      [] l = LEVEL_REGION -> LEVEL_CHUNK
      [] l = LEVEL_CHUNK -> LEVEL_LEAF

\* Only the non-leaf layers implement Nestable
IsNestable(l) == l \in {LEVEL_ROOT, LEVEL_REGION, LEVEL_CHUNK}

\* the parent-index type PI of each layer of ExampleDelta
IndexType(l) ==
    CASE l = LEVEL_REGION -> "u16"
      [] l = LEVEL_CHUNK -> "u32"
      [] l = LEVEL_LEAF -> "u16"

----------------------------------------------------------------------------
(* LodPos and its alignment (super::index) *)

RECURSIVE two_pow_u(_)
two_pow_u(n) == IF n = 0 THEN 1 ELSE 2 * two_pow_u(n - 1)

\* LodIndex::align_to_layer_id: every coordinate truncated to the layer's cell
align_to_layer_id(pos, layer) ==
    LET f == two_pow_u(layer)
    IN  <<(pos[1] \div f) * f, (pos[2] \div f) * f, (pos[3] \div f) * f>>

----------------------------------------------------------------------------
(* KeyConvertable: the `as` casts between a layer key and a parent index *)

U16_RANGE == 65536

\* a cast that keeps only the low 8 bits
as_u16_narrow(n) == n % 256

\* `as u16`: the low 16 bits
as_u16(n) == n % U16_RANGE

\* `as u32`: the low 32 bits, taken as two 16-bit halves
as_u32(n) == (n % U16_RANGE) + U16_RANGE * ((n \div U16_RANGE) % U16_RANGE)

\* `as usize` of an unsigned index: zero extension keeps the value
as_usize(n) == n

Pairings == {"u16", "u32", "LodPos"}

compress(pairing, key) ==
    CASE pairing = "u16" -> as_u16(key)
      [] pairing = "u32" -> as_u32(key)
      [] pairing = "LodPos" -> key

uncompress(pairing, idx) ==
    CASE pairing = "u16" -> as_usize(idx)
      [] pairing = "u32" -> as_usize(idx)
      [] pairing = "LodPos" -> idx

----------------------------------------------------------------------------
(* The collections behind the stores.  A call returns [ok, val]; ok = FALSE *)
(* is a panic.                                                              *)

EmptyMap == [q \in {} |-> 0]

\* HashMap::len / Vec::len
NumEntries(coll) == Cardinality(DOMAIN coll)
Panic == [ok |-> FALSE, val |-> 0]
Return(v) == [ok |-> TRUE, val |-> v]

\* Vec::insert(key, x): panics if key > len, else shifts the tail right
VecInsert(v, key, x) ==
    IF key > Len(v)
    THEN Panic
    ELSE Return(SubSeq(v, 1, key) \o <<x>> \o SubSeq(v, key + 1, Len(v)))

\* Vec::get(key).unwrap()
VecGet(v, key) ==
    IF key < Len(v) THEN Return(v[key + 1]) ELSE Panic

\* HashMap::insert(key, x): adds or replaces
HashInsert(m, key, x) ==
    Return([q \in (DOMAIN m) \cup {key} |-> IF q = key THEN x ELSE m[q]])

\* HashMap::get(&key).unwrap()
HashGet(m, key) ==
    IF key \in DOMAIN m THEN Return(m[key]) ELSE Panic

----------------------------------------------------------------------------
(* DetailStore and IndexStore of each layer of ExampleDelta *)

\* DetailStore::store: the root is hash-backed, the others Vec-backed
DetailStore_store(l, coll, key, d) ==
    IF l = LEVEL_ROOT THEN HashInsert(coll, key, d) ELSE VecInsert(coll, key, d)

DetailStore_load(l, coll, key) ==
    IF l = LEVEL_ROOT THEN HashGet(coll, key) ELSE VecGet(coll, key)

\* a store that returns without writing the entry
IndexStore_store_dropped(l, coll, key, idx) == Return(coll)

\* IndexStore::store: VecHashNestLayer keeps a HashMap<LodPos, PI>, the
\* Vec-indexed layers a Vec<PI>
IndexStore_store(l, coll, key, idx) ==
    IF l = LEVEL_REGION THEN HashInsert(coll, key, idx) ELSE VecInsert(coll, key, idx)

IndexStore_load(l, coll, key) ==
    IF l = LEVEL_REGION THEN HashGet(coll, key) ELSE VecGet(coll, key)

OWN_PER_PARENT_VecVecLayer == 4096
OWN_PER_PARENT_VecVecNestLayer == 32768
OWN_PER_PARENT_VecHashLayer == 1337
OWN_PER_PARENT_VecHashNestLayer == 4096

\* every layer given the fan-out of VecHashLayer
OWN_PER_PARENT_flat(l) == OWN_PER_PARENT_VecHashLayer

OWN_PER_PARENT(l) ==
    CASE l = LEVEL_REGION -> OWN_PER_PARENT_VecHashNestLayer
      [] l = LEVEL_CHUNK -> OWN_PER_PARENT_VecVecNestLayer
      [] l = LEVEL_LEAF -> OWN_PER_PARENT_VecVecLayer

----------------------------------------------------------------------------
(* State *)

\* the layer of no cursor: a level above the root
NoLevel == LEVEL_ROOT + 1
NoCursor == [layer |-> NoLevel, wanted |-> <<0, 0, 0>>, key |-> 0]

Call(op, pos, layer, key, d, out) ==
    [op |-> op, pos |-> pos, layer |-> layer, key |-> key, detail |-> d, out |-> out]

NoCall == Call("none", <<0, 0, 0>>, NoLevel, 0, "", "Ok")

CodecIdle ==
    [stage |-> "idle", pairing |-> "u16", own |-> 0, key |-> 0, idx |-> 0, back |-> 0,
     out |-> "Ok"]

\* the freshly built tree of tests::newdata: every collection empty
InitTree ==
    /\ detail = [l \in Levels |-> IF l = LEVEL_ROOT THEN EmptyMap ELSE <<>>]
    /\ index = [l \in DenseLevels |-> IF l = LEVEL_REGION THEN EmptyMap ELSE <<>>]
    /\ cursor = NoCursor
    /\ res = NoCall
    /\ inserted = EmptyMap
    /\ ninserts = 0

\* the type ExampleDelta, outermost layer first
ExampleDelta ==
    <<[struct |-> "HashNoneNestLayer", L |-> LEVEL_ROOT],
      [struct |-> "VecHashNestLayer", L |-> LEVEL_REGION],
      [struct |-> "VecVecNestLayer", L |-> LEVEL_CHUNK],
      [struct |-> "VecVecLayer", L |-> LEVEL_LEAF]>>

\* the value of a part of the state that a specification leaves alone
Unused == <<>>

Init ==
    /\ InitTree
    /\ codec = CodecIdle
    /\ chain = ExampleDelta
    /\ game = Unused /\ ctrl = Unused /\ draw = Unused /\ plants = Unused

Running == res.out # "Fault"

\* a LayerResult borrows the tree: no &mut call while one is alive
NoBorrow == cursor.layer = NoLevel

----------------------------------------------------------------------------
(* insert(pos, L, d): the store calls along the path from the root to the   *)
(* layer of level L.  Each dense layer on the path gets the Index entry     *)
(* (parent key -> compress(own key)); the layer of level L gets the Detail. *)
(* slots = <<k9, k4, k0>> are the keys of the Vec-backed layers.            *)

Tree(dt, ix, ok) == [detail |-> dt, index |-> ix, ok |-> ok]

StepIndex(s, l, pkey, ckey) ==
    IF ~s.ok THEN s
    ELSE LET r == IndexStore_store(l, s.index[l], pkey, compress(IndexType(l), ckey))
         IN  IF r.ok THEN [s EXCEPT !.index[l] = r.val] ELSE [s EXCEPT !.ok = FALSE]

StepDetail(s, l, key, d) ==
    IF ~s.ok THEN s
    ELSE LET r == DetailStore_store(l, s.detail[l], key, d)
         IN  IF r.ok THEN [s EXCEPT !.detail[l] = r.val] ELSE [s EXCEPT !.ok = FALSE]

insert(dt, ix, pos, L, d, slots) ==
    LET k13 == align_to_layer_id(pos, LEVEL_ROOT)
        k9 == slots[1]
        k4 == slots[2]
        k0 == slots[3]
        s0 == Tree(dt, ix, TRUE)
        s1 == IF L = LEVEL_ROOT THEN StepDetail(s0, LEVEL_ROOT, k13, d)
              ELSE StepIndex(s0, LEVEL_REGION, k13, k9)
        s2 == IF L = LEVEL_ROOT THEN s1
              ELSE IF L = LEVEL_REGION THEN StepDetail(s1, LEVEL_REGION, k9, d)
              ELSE StepIndex(s1, LEVEL_CHUNK, k9, k4)
        s3 == IF L \in {LEVEL_ROOT, LEVEL_REGION} THEN s2
              ELSE IF L = LEVEL_CHUNK THEN StepDetail(s2, LEVEL_CHUNK, k4, d)
              ELSE StepIndex(s2, LEVEL_LEAF, k4, k0)
    IN  IF L = LEVEL_LEAF THEN StepDetail(s3, LEVEL_LEAF, k0, d) ELSE s3

SlotOf(L, slots) ==
    CASE L = LEVEL_ROOT -> 0
      [] L = LEVEL_REGION -> slots[1]
      [] L = LEVEL_CHUNK -> slots[2]
      [] L = LEVEL_LEAF -> slots[3]

WithinMaxLen(s) ==
    /\ \A l \in DenseLevels : Len(s.detail[l]) <= MaxLen
    /\ \A l \in {LEVEL_CHUNK, LEVEL_LEAF} : Len(s.index[l]) <= MaxLen

Insert ==
    /\ Running
    /\ NoBorrow
    /\ ninserts < MaxInserts
    /\ ninserts' = ninserts + 1
    /\ \E pos \in PosSet, L \in Levels, d \in Details :
       \E k9 \in (IF L <= LEVEL_REGION THEN SlotKeys ELSE {0}),
          k4 \in (IF L <= LEVEL_CHUNK THEN SlotKeys ELSE {0}),
          k0 \in (IF L <= LEVEL_LEAF THEN SlotKeys ELSE {0}) :
          LET slots == <<k9, k4, k0>>
              s == insert(detail, index, pos, L, d, slots)
          IN  /\ WithinMaxLen(s)
              /\ detail' = s.detail
              /\ index' = s.index
              /\ res' = Call("insert", pos, L, SlotOf(L, slots), d,
                             IF s.ok THEN "Ok" ELSE "Fault")
              /\ inserted' = IF s.ok
                             THEN HashInsert(inserted, <<L, align_to_layer_id(pos, L)>>, d).val
                             ELSE inserted
    /\ UNCHANGED <<cursor, codec, chain,
                   game, ctrl, draw, plants>>

----------------------------------------------------------------------------
(* The traversal cursor *)

\* a trav that forgets to align the position to the root's level
trav_unaligned(pos) ==
    [layer |-> LEVEL_ROOT, wanted |-> pos, key |-> pos]

\* HashNoneNestLayer::trav
trav(pos) ==
    [layer |-> LEVEL_ROOT, wanted |-> pos, key |-> align_to_layer_id(pos, LEVEL_ROOT)]

\* a get whose child key is one past the loaded handle
get_plus(c, ix) ==
    LET child == nested(c.layer)
        r == IndexStore_load(child, ix[child], c.key)
    IN  IF r.ok
        THEN Return([layer |-> child, wanted |-> c.wanted,
                     key |-> uncompress(IndexType(child), r.val) + 1])
        ELSE Panic

\* a get that jumps to the innermost layer
get_toleaf(c, ix) ==
    LET child == nested(c.layer)
        r == IndexStore_load(child, ix[child], c.key)
    IN  IF r.ok
        THEN Return([layer |-> LEVEL_LEAF, wanted |-> c.wanted,
                     key |-> uncompress(IndexType(child), r.val)])
        ELSE Panic

\* a get that hands on a cursor without the wanted position
get_lost(c, ix) ==
    LET child == nested(c.layer)
        r == IndexStore_load(child, ix[child], c.key)
    IN  IF r.ok
        THEN Return([layer |-> child, wanted |-> <<0, 0, 0>>,
                     key |-> uncompress(IndexType(child), r.val)])
        ELSE Panic

\* Traversable::get for LayerResult: load the nested layer's Index entry at
\* the current key and uncompress it into the nested layer's key
get(c, ix) ==
    LET child == nested(c.layer)
        r == IndexStore_load(child, ix[child], c.key)
    IN  IF r.ok
        THEN Return([layer |-> child, wanted |-> c.wanted,
                     key |-> uncompress(IndexType(child), r.val)])
        ELSE Panic

\* Materializeable::mat for LayerResult: unimplemented!()
mat(c, dt) == Panic

\* x.trav(pos).get().get()...: the chain of calls that reaches level L
RECURSIVE descendFrom(_, _, _)
descendFrom(c, L, ix) ==
    IF c.layer = L THEN Return(c)
    ELSE LET r == get(c, ix)
         IN  IF r.ok THEN descendFrom(r.val, L, ix) ELSE Panic

descend(pos, L, ix) == descendFrom(trav(pos), L, ix)

Trav ==
    /\ Running
    /\ cursor.layer = NoLevel
    /\ \E pos \in PosSet :
        /\ cursor' = trav(pos)
        /\ res' = Call("trav", pos, LEVEL_ROOT, 0, "", "Ok")
    /\ UNCHANGED <<detail, index, inserted, ninserts, codec, chain,
                   game, ctrl, draw, plants>>

\* get consumes the cursor it is called on
Get ==
    /\ Running
    /\ cursor.layer # NoLevel
    /\ IsNestable(cursor.layer)
    /\ LET r == get(cursor, index)
       IN  /\ cursor' = IF r.ok THEN r.val ELSE NoCursor
           /\ res' = Call("get", cursor.wanted, cursor.layer, cursor.key, "",
                          IF r.ok THEN "Ok" ELSE "Fault")
    /\ UNCHANGED <<detail, index, inserted, ninserts, codec, chain,
                   game, ctrl, draw, plants>>

\* mat needs N: IndexStore + DetailStore, which the root layer is not
Mat ==
    /\ Running
    /\ cursor.layer \in DenseLevels
    /\ LET r == mat(cursor, detail)
       IN  /\ cursor' = NoCursor
           /\ res' = Call("mat", cursor.wanted, cursor.layer, cursor.key,
                          IF r.ok THEN r.val ELSE "",
                          IF r.ok THEN "Ok" ELSE "Fault")
    /\ UNCHANGED <<detail, index, inserted, ninserts, codec, chain,
                   game, ctrl, draw, plants>>

\* the LayerResult going out of scope
Drop ==
    /\ Running
    /\ cursor.layer # NoLevel
    /\ cursor' = NoCursor
    /\ UNCHANGED <<detail, index, res, inserted, ninserts, codec, chain,
                   game, ctrl, draw, plants>>

Next == Insert \/ Trav \/ Get \/ Mat \/ Drop

Spec == Init /\ [][Next]_vars

----------------------------------------------------------------------------
(* The codec on its own: one key of one layer kind is compressed into the   *)
(* parent index type and uncompressed again.                                *)

OwnPerParentValues ==
    {OWN_PER_PARENT_VecVecLayer, OWN_PER_PARENT_VecVecNestLayer,
     OWN_PER_PARENT_VecHashLayer, OWN_PER_PARENT_VecHashNestLayer}

\* keys beyond the 16-bit index width
OverKeys == {U16_RANGE, U16_RANGE + 1, 2 * U16_RANGE + 5}

CodecKeys(pairing, own) ==
    IF pairing = "LodPos" THEN PosSet ELSE (0 .. (own - 1)) \cup OverKeys

InitCodec ==
    /\ InitTree
    /\ \E pairing \in Pairings :
       \E own \in (IF pairing = "LodPos" THEN {0} ELSE OwnPerParentValues) :
       \E key \in CodecKeys(pairing, own) :
          codec = [CodecIdle EXCEPT !.stage = "start", !.pairing = pairing,
                                    !.own = own, !.key = key]
    /\ chain = ExampleDelta
    /\ game = Unused /\ ctrl = Unused /\ draw = Unused /\ plants = Unused

\* compress returns an INDEX, never an error
CodecCompress ==
    /\ codec.stage = "start"
    /\ codec' = [codec EXCEPT !.stage = "compressed",
                              !.idx = compress(codec.pairing, codec.key),
                              !.out = "Ok"]
    /\ UNCHANGED <<detail, index, cursor, res, inserted, ninserts, chain,
                   game, ctrl, draw, plants>>

CodecUncompress ==
    /\ codec.stage = "compressed"
    /\ codec' = [codec EXCEPT !.stage = "done",
                              !.back = uncompress(codec.pairing, codec.idx)]
    /\ UNCHANGED <<detail, index, cursor, res, inserted, ninserts, chain,
                   game, ctrl, draw, plants>>

NextCodec == CodecCompress \/ CodecUncompress

SpecCodec == InitCodec /\ [][NextCodec]_vars

\* the key lies in the fan-out range of its layer
InFanOut(c) == c.pairing = "LodPos" \/ c.key < c.own

\* the key fits the index width
FitsIndex(c) ==
    \/ c.pairing = "LodPos"
    \/ c.pairing = "u32"
    \/ c.pairing = "u16" /\ c.key < U16_RANGE

----------------------------------------------------------------------------
(* The stores on their own: DetailStore and IndexStore of each layer called *)
(* directly, as the pub traits allow.                                       *)

RootKeys == {align_to_layer_id(p, LEVEL_ROOT) : p \in PosSet}
VecKeys == 0 .. MaxLen
\* index handles passed to IndexStore::store: any value of PI is accepted
Handles == {0, 1, OWN_PER_PARENT_VecHashNestLayer}

NoPos == <<0, 0, 0>>

\* a LodPos key goes into the pos field of the call, a usize key into key
StoreCall(op, l, hashed, key, v, out) ==
    Call(op, IF hashed THEN key ELSE NoPos, l, IF hashed THEN 0 ELSE key, v, out)

Outcome(r) == IF r.ok THEN "Ok" ELSE "Fault"

StoreDetail ==
    /\ Running
    /\ ninserts < MaxStores
    /\ ninserts' = ninserts + 1
    /\ \E l \in Levels, d \in Details :
       \E key \in (IF l = LEVEL_ROOT THEN RootKeys ELSE VecKeys) :
          LET r == DetailStore_store(l, detail[l], key, d)
          IN  /\ r.ok => NumEntries(r.val) <= MaxLen
              /\ detail' = IF r.ok THEN [detail EXCEPT ![l] = r.val] ELSE detail
              /\ res' = StoreCall("dstore", l, l = LEVEL_ROOT, key, d, Outcome(r))
    /\ UNCHANGED <<index, cursor, inserted, codec, chain,
                   game, ctrl, draw, plants>>

StoreIndex ==
    /\ Running
    /\ ninserts < MaxStores
    /\ ninserts' = ninserts + 1
    /\ \E l \in DenseLevels, idx \in Handles :
       \E key \in (IF l = LEVEL_REGION THEN RootKeys ELSE VecKeys) :
          LET r == IndexStore_store(l, index[l], key, idx)
          IN  /\ r.ok => NumEntries(r.val) <= MaxLen
              /\ index' = IF r.ok THEN [index EXCEPT ![l] = r.val] ELSE index
              /\ res' = StoreCall("istore", l, l = LEVEL_REGION, key, idx, Outcome(r))
    /\ UNCHANGED <<detail, cursor, inserted, codec, chain,
                   game, ctrl, draw, plants>>

LoadDetail ==
    /\ Running
    /\ \E l \in Levels :
       \E key \in (IF l = LEVEL_ROOT THEN RootKeys ELSE VecKeys) :
          LET r == DetailStore_load(l, detail[l], key)
          IN  res' = StoreCall("dload", l, l = LEVEL_ROOT, key, r.val, Outcome(r))
    /\ UNCHANGED <<detail, index, cursor, inserted, ninserts, codec, chain,
                   game, ctrl, draw, plants>>

LoadIndex ==
    /\ Running
    /\ \E l \in DenseLevels :
       \E key \in (IF l = LEVEL_REGION THEN RootKeys ELSE VecKeys) :
          LET r == IndexStore_load(l, index[l], key)
          IN  res' = StoreCall("iload", l, l = LEVEL_REGION, key, r.val, Outcome(r))
    /\ UNCHANGED <<detail, index, cursor, inserted, ninserts, codec, chain,
                   game, ctrl, draw, plants>>

NextStore == StoreDetail \/ StoreIndex \/ LoadDetail \/ LoadIndex

SpecStore == Init /\ [][NextStore]_vars

----------------------------------------------------------------------------
(* Composing layer types: each struct takes its nested layer N and its own  *)
(* level L as parameters.  The impls ask only for the key type of N's       *)
(* IndexStore; L is any u8.                                                 *)

\* values of the const parameter L tried
LevelValues == Levels

\* IndexStore::KEY of each struct
IndexKey(struct) ==
    CASE struct \in {"VecVecLayer", "VecVecNestLayer"} -> "usize"
      [] struct \in {"VecHashLayer", "VecHashNestLayer"} -> "LodPos"
      [] struct = "HashNoneNestLayer" -> "none"

InitBuild ==
    /\ InitTree
    /\ codec = CodecIdle
    /\ chain = <<>>
    /\ game = Unused /\ ctrl = Unused /\ draw = Unused /\ plants = Unused

\* VecVecLayer<T, PI, L> / VecHashLayer<T, PI, L>
NewLeaf ==
    /\ chain = <<>>
    /\ \E struct \in {"VecVecLayer", "VecHashLayer"}, L \in LevelValues :
        chain' = <<[struct |-> struct, L |-> L]>>
    /\ UNCHANGED <<detail, index, cursor, res, inserted, ninserts, codec,
                   game, ctrl, draw, plants>>

\* VecVecNestLayer<N, T, PI, L> / VecHashNestLayer<N, T, PI, L>,
\* N: IndexStore<KEY = usize> + DetailStore
NewNest ==
    /\ chain # <<>>
    /\ Len(chain) < MaxDepth
    /\ IndexKey(chain[1].struct) = "usize"
    /\ \E struct \in {"VecVecNestLayer", "VecHashNestLayer"}, L \in LevelValues :
        chain' = <<[struct |-> struct, L |-> L]>> \o chain
    /\ UNCHANGED <<detail, index, cursor, res, inserted, ninserts, codec,
                   game, ctrl, draw, plants>>

\* HashNoneNestLayer<N, T, L>, N: IndexStore<KEY = LodPos> + DetailStore
NewRoot ==
    /\ chain # <<>>
    /\ Len(chain) < MaxDepth
    /\ IndexKey(chain[1].struct) = "LodPos"
    /\ \E L \in LevelValues :
        chain' = <<[struct |-> "HashNoneNestLayer", L |-> L]>> \o chain
    /\ UNCHANGED <<detail, index, cursor, res, inserted, ninserts, codec,
                   game, ctrl, draw, plants>>

NextBuild == NewLeaf \/ NewNest \/ NewRoot

SpecBuild == InitBuild /\ [][NextBuild]_vars

----------------------------------------------------------------------------
(* server/src/sys/msg/in_game.rs: Sys::handle_client_in_game_msg for one    *)
(* client entity.  game holds the entity's components, the resources the    *)
(* handler reads and writes, and the logs of what it emitted and sent.      *)

\* Option<u32>
None == [some |-> FALSE, val |-> 0]
Some(v) == [some |-> TRUE, val |-> v]

\* values of settings.max_view_distance and of the view distances requested
MaxViewDistances == {None, Some(2)}
ViewDistances == {1, 2, 3}

BlockPositions == {<<1, 1, 1>>, <<2, 2, 2>>, <<3, 0, 0>>}

Block(kind, filled) == [kind |-> kind, filled |-> filled]

\* build_areas.areas(): the areas that exist; area 3 has been removed
Areas ==
    [a \in {1, 2} |->
        IF a = 1 THEN [min |-> <<0, 0, 0>>, max |-> <<2, 2, 2>>]
        ELSE [min |-> <<1, 1, 1>>, max |-> <<1, 1, 1>>]]

\* the build_areas a CanBuild component may list
ListedAreas == {{}, {3}, {1, 3}, {1, 2}}

\* Aabb::contains_point: both bounds inclusive
contains_point(aabb, p) ==
    \A i \in 1 .. 3 : aabb.min[i] <= p[i] /\ p[i] <= aabb.max[i]

\* the loaded terrain: <<2, 2, 2>> lies in no loaded chunk
TerrainGrid ==
    [p \in {<<1, 1, 1>>, <<3, 0, 0>>} |->
        IF p = <<1, 1, 1>> THEN Block("Rock", TRUE) ELSE Block("Grass", TRUE)]

\* terrain.get(pos).ok()
terrain_get(p) ==
    IF p \in DOMAIN TerrainGrid
    THEN [some |-> TRUE, val |-> TerrainGrid[p]]
    ELSE [some |-> FALSE, val |-> Block("", FALSE)]

\* Block::into_vacant: the block with its content taken out
into_vacant(b) == [b EXCEPT !.filled = FALSE]

\* BlockChange::try_set: sets the block unless a change for pos is queued
try_set(blocks, pos, block) ==
    IF pos \in DOMAIN blocks
    THEN [set |-> FALSE, blocks |-> blocks]
    ELSE [set |-> TRUE,
          blocks |-> [q \in (DOMAIN blocks) \cup {pos} |->
                         IF q = pos THEN block ELSE blocks[q]]]

\* a ClientGeneral message
Msg(type, n, pos, block) == [type |-> type, n |-> n, pos |-> pos, block |-> block]

NoBlock == Block("", FALSE)

ClientMsgs ==
    {Msg(t, 0, <<0, 0, 0>>, NoBlock) :
        t \in {"ExitInGame", "Control", "UnlockSkill", "RefundSkill", "UnlockSkillGroup",
               "RequestSiteInfo", "ChatMsg"}}
    \cup {Msg("SetViewDistance", v, <<0, 0, 0>>, NoBlock) : v \in ViewDistances}
    \cup {Msg("BreakBlock", 0, p, NoBlock) : p \in BlockPositions}
    \cup {Msg("PlaceBlock", 0, p, Block("Wood", TRUE)) : p \in BlockPositions}
    \cup {Msg("RequestLossyTerrainCompression", n, <<0, 0, 0>>, NoBlock) : n \in {0, 1}}

\* server_emitter.emit(event)
Emit(g, event) == [g EXCEPT !.events = Append(@, event)]

\* client.send(msg): the call is logged with its result
Send(g, type, n, ok) == [g EXCEPT !.sent = Append(@, [type |-> type, n |-> n, ok |-> ok])]

\* the handler returns
Done(g, msg, out) ==
    [g EXCEPT !.nmsgs = @ + 1, !.last = [msg |-> msg, out |-> out]]

Result(sendOk) == IF sendOk THEN "Ok" ELSE "Err"

\* the listed areas that exist and contain pos
AreasAround(g, pos) ==
    {a \in g.build_areas : a \in DOMAIN Areas /\ contains_point(Areas[a], pos)}

\* block_changes.try_set(pos, block) once for each area of the set
RECURSIVE TrySetEach(_, _, _, _)
TrySetEach(g, areas, pos, block) ==
    IF areas = {} THEN g
    ELSE LET a == CHOOSE x \in areas : TRUE
             r == try_set(g.block_changes, pos, block)
             g1 == [g EXCEPT !.block_changes = r.blocks,
                             !.tries = Append(@, [pos |-> pos, block |-> block,
                                                  set |-> r.set])]
         IN  TrySetEach(g1, areas \ {a}, pos, block)

\* a handler without the presence check of its first lines
handle_without_presence_check(g, msg, sendOk) ==
    IF msg.type = "SetViewDistance"
    THEN Done([g EXCEPT !.view_distance = msg.n], msg, "Ok")
    ELSE IF msg.type = "RequestSiteInfo"
    THEN Done(Emit(g, "RequestSiteInfo"), msg, "Ok")
    ELSE Done(g, msg, "Ok")

\* a handler that stores the requested view distance as it is
handle_uncapped(g, msg, sendOk) ==
    IF g.has_presence /\ msg.type = "SetViewDistance"
    THEN Done([g EXCEPT !.view_distance = msg.n], msg, "Ok")
    ELSE Done(g, msg, "Ok")

\* a handler that takes enabled for granted
handle_build_unchecked(g, msg, sendOk) ==
    IF g.has_presence /\ msg.type = "PlaceBlock" /\ g.has_can_build
    THEN Done(TrySetEach(g, g.build_areas, msg.pos, msg.block), msg, "Ok")
    ELSE Done(g, msg, "Ok")

handle_client_in_game_msg(g, msg, sendOk) ==
    IF ~g.has_presence THEN Done(g, msg, "Ok")
    ELSE CASE msg.type = "ExitInGame" ->
              Done(Send(Emit(g, "ExitIngame"), "ExitInGameSuccess", 0, sendOk),
                   msg, Result(sendOk))
           [] msg.type = "SetViewDistance" ->
              LET max == g.max_view_distance
                  g1 == [g EXCEPT !.view_distance =
                            IF max.some
                            THEN (IF msg.n < max.val THEN msg.n ELSE max.val)
                            ELSE msg.n]
              IN  IF max.some /\ msg.n > max.val
                  THEN Done(Send(g1, "SetViewDistance", max.val, sendOk),
                            msg, Result(sendOk))
                  ELSE Done(g1, msg, "Ok")
           [] msg.type = "Control" ->
              IF g.character
              THEN Done(Send([g EXCEPT !.remote_controller = @ + 1],
                             "AckControl", 0, sendOk),
                        msg, Result(sendOk))
              ELSE Done(g, msg, "Ok")
           [] msg.type = "BreakBlock" ->
              IF g.has_can_build /\ g.enabled /\ terrain_get(msg.pos).some
              THEN Done(TrySetEach(g, AreasAround(g, msg.pos), msg.pos,
                                   into_vacant(terrain_get(msg.pos).val)),
                        msg, "Ok")
              ELSE Done(g, msg, "Ok")
           [] msg.type = "PlaceBlock" ->
              IF g.has_can_build /\ g.enabled
              THEN Done(TrySetEach(g, AreasAround(g, msg.pos), msg.pos, msg.block),
                        msg, "Ok")
              ELSE Done(g, msg, "Ok")
           [] msg.type \in {"UnlockSkill", "RefundSkill", "UnlockSkillGroup"} ->
              IF g.has_skill_set
              THEN Done([g EXCEPT !.skill_set = Append(@, msg.type)], msg, "Ok")
              ELSE Done(g, msg, "Ok")
           [] msg.type = "RequestSiteInfo" ->
              Done(Emit(g, "RequestSiteInfo"), msg, "Ok")
           [] msg.type = "RequestLossyTerrainCompression" ->
              Done([g EXCEPT !.lossy_terrain_compression = msg.n], msg, "Ok")
           [] OTHER -> Done(g, msg, "Ok")

\* the other parts of the state, for a specification that leaves them alone
TreeIdle ==
    /\ InitTree
    /\ codec = CodecIdle
    /\ chain = ExampleDelta

\* the client entity as the message system finds it: with or without a
\* Presence, CanBuild and SkillSet; nothing emitted, sent or queued yet
InitInGame ==
    /\ TreeIdle
    /\ ctrl = Unused /\ draw = Unused /\ plants = Unused
    /\ \E max \in MaxViewDistances, presence \in {"none", "Character", "Spectator"},
          can_build \in {"none", "disabled", "enabled"}, listed \in ListedAreas,
          has_skill_set \in BOOLEAN :
          /\ can_build = "none" => listed = {}
          /\ game = [max_view_distance |-> max,
                     has_presence |-> presence # "none",
                     character |-> presence = "Character",
                     view_distance |-> 1,
                     lossy_terrain_compression |-> 0,
                     has_can_build |-> can_build # "none",
                     enabled |-> can_build = "enabled",
                     build_areas |-> listed,
                     has_skill_set |-> has_skill_set,
                     skill_set |-> <<>>,
                     remote_controller |-> 0,
                     block_changes |-> EmptyMap,
                     tries |-> <<>>,
                     events |-> <<>>,
                     sent |-> <<>>,
                     nmsgs |-> 0,
                     last |-> [msg |-> Msg("none", 0, <<0, 0, 0>>, NoBlock),
                               out |-> "Ok"]]

\* try_recv_all hands one received message to the handler
HandleMsg ==
    /\ game.nmsgs < MaxMsgs
    /\ \E msg \in ClientMsgs, sendOk \in BOOLEAN :
          game' = handle_client_in_game_msg(game, msg, sendOk)
    /\ UNCHANGED <<detail, index, cursor, res, inserted, ninserts, codec, chain,
                   ctrl, draw, plants>>

NextInGame == HandleMsg

SpecInGame == InitInGame /\ [][NextInGame]_vars

----------------------------------------------------------------------------
(* common/sys/src/controller.rs: one run of the controller system over the  *)
(* entities that have a Controller.                                         *)

Entities == {1, 2}

\* uids the UidAllocator resolves, and the entity each stands for
UidEntity == [u \in {7} |-> 2]

\* uid 9 belongs to no entity
Uids == {7, 9}

ControlEvent(type, arg) == [type |-> type, arg |-> arg]

\* the control events queued in the model
ControlEvents ==
    {ControlEvent("Mount", u) : u \in Uids}
    \cup {ControlEvent("Interact", u) : u \in Uids}
    \cup {ControlEvent(t, 0) : t \in {"Unmount", "RemoveBuff", "Respawn"}}

\* sequences over S of length up to n
RECURSIVE SeqsUpTo(_, _)
SeqsUpTo(S, n) ==
    IF n = 0 THEN {<<>>}
    ELSE LET shorter == SeqsUpTo(S, n - 1)
         IN  shorter \cup {Append(q, x) : q \in shorter, x \in S}

\* inputs.move_dir by its magnitude, inputs.move_z as a whole number
InputValues == {[move_dir |-> "under", move_z |-> 0], [move_dir |-> "over", move_z |-> 2]}

\* uid_allocator.retrieve_entity_internal(uid.id())
retrieve_entity_internal(uid) ==
    IF uid \in DOMAIN UidEntity THEN Some(UidEntity[uid]) ELSE None

ServerEvent(type, entity, arg) == [type |-> type, entity |-> entity, arg |-> arg]

\* the match on one ControlEvent: the server events it emits
emitted(entity, event) ==
    CASE event.type = "Mount" ->
            LET r == retrieve_entity_internal(event.arg)
            IN  IF r.some THEN <<ServerEvent("Mount", entity, r.val)>> ELSE <<>>
      [] event.type = "RemoveBuff" -> <<ServerEvent("Buff", entity, event.arg)>>
      [] event.type = "Unmount" -> <<ServerEvent("Unmount", entity, 0)>>
      [] event.type = "EnableLantern" -> <<ServerEvent("EnableLantern", entity, 0)>>
      [] event.type = "DisableLantern" -> <<ServerEvent("DisableLantern", entity, 0)>>
      [] event.type = "Interact" ->
            LET r == retrieve_entity_internal(event.arg)
            IN  IF r.some THEN <<ServerEvent("NpcInteract", entity, r.val)>> ELSE <<>>
      [] event.type = "InitiateInvite" ->
            <<ServerEvent("InitiateInvite", entity, event.arg)>>
      [] event.type = "InviteResponse" ->
            <<ServerEvent("InviteResponse", entity, event.arg)>>
      [] event.type = "PerformTradeAction" ->
            <<ServerEvent("ProcessTradeAction", entity, event.arg)>>
      [] event.type = "InventoryManip" ->
            <<ServerEvent("InventoryManip", entity, event.arg)>>
      [] event.type = "GroupManip" -> <<ServerEvent("GroupManip", entity, event.arg)>>
      [] event.type = "Respawn" -> <<ServerEvent("Respawn", entity, 0)>>

\* a drain that handles the newest event first
RECURSIVE drain_newest_first(_, _)
drain_newest_first(entity, events) ==
    IF events = <<>> THEN <<>>
    ELSE drain_newest_first(entity, Tail(events)) \o emitted(entity, Head(events))

\* for event in controller.events.drain(..): oldest first
RECURSIVE drain(_, _)
drain(entity, events) ==
    IF events = <<>> THEN <<>>
    ELSE emitted(entity, Head(events)) \o drain(entity, Tail(events))

\* move_dir capped to length 1, move_z clamped to [-1, 1]
capped(inputs) ==
    [move_dir |-> IF inputs.move_dir = "over" THEN "unit" ELSE inputs.move_dir,
     move_z |-> IF inputs.move_z > 1 THEN 1
                ELSE IF inputs.move_z < -1 THEN -1 ELSE inputs.move_z]

\* the join visits the entities in the order of their ids
RECURSIVE run_from(_, _)
run_from(c, entity) ==
    IF entity \notin Entities THEN c
    ELSE run_from([c EXCEPT !.bus = @ \o drain(entity, c.controllers[entity].events),
                            !.controllers[entity] =
                                [inputs |-> capped(@.inputs), events |-> <<>>]],
                  entity + 1)

InitController ==
    /\ TreeIdle
    /\ game = Unused /\ draw = Unused /\ plants = Unused
    /\ \E queues \in [Entities -> SeqsUpTo(ControlEvents, MaxEvents)],
          inputs \in [Entities -> InputValues] :
          ctrl = [controllers |-> [e \in Entities |->
                                      [inputs |-> inputs[e], events |-> queues[e]]],
                  bus |-> <<>>,
                  runs |-> 0]

\* Sys::run
Run ==
    /\ ctrl.runs = 0
    /\ ctrl' = [run_from(ctrl, 1) EXCEPT !.runs = 1]
    /\ UNCHANGED <<detail, index, cursor, res, inserted, ninserts, codec, chain,
                   game, draw, plants>>

NextController == Run

SpecController == InitController /\ [][NextController]_vars

----------------------------------------------------------------------------
(* voxygen/src/render/renderer/drawer.rs: the terrain drawer of the first   *)
(* pass.  An atlas is an Arc<ColLights>, named by its allocation; Arc::ptr_eq *)
(* compares allocations.                                                    *)

\* the atlases the chunks of the scene share
Atlases == {1, 2}

\* an atlas of another drawer (figures), bound before the terrain is drawn
OtherAtlases == {8}

\* the chunks: their model length in vertices and their BoundLocals
Chunks == {[len |-> 4, locals |-> 1], [len |-> 8, locals |-> 2]}

\* col_lights.bind_group
bind_group(atlas) == [of |-> "col_lights", id |-> atlas]

\* locals.bind_group
locals_bind_group(locals) == [of |-> "locals", id |-> locals]

NoBindGroup == [of |-> "none", id |-> 0]

\* render_pass.set_bind_group(slot, group, &[])
set_bind_group(d, slot, group) ==
    [d EXCEPT !.slots[slot] = group,
              !.rebinds[slot] = @ + 1]

\* render_pass.draw_indexed(0..model.len() as u32 / 4 * 6, 0, 0..1): logged
\* with the bind groups in place when it is issued
draw_indexed(d, chunk, atlas) ==
    [d EXCEPT !.commands = Append(@, [indices |-> (chunk.len \div 4) * 6,
                                       atlas |-> atlas,
                                       locals |-> chunk.locals,
                                       slot2 |-> d.slots[2],
                                       slot3 |-> d.slots[3]])]

\* a draw that binds the atlas for the first chunk only
draw_bound_once(d, chunk, atlas) ==
    LET d1 == IF d.col_lights.some THEN d
              ELSE [set_bind_group(d, 3, bind_group(atlas))
                       EXCEPT !.col_lights = Some(atlas)]
    IN  draw_indexed(set_bind_group(d1, 2, locals_bind_group(chunk.locals)),
                     chunk, atlas)

\* TerrainDrawer::draw
TerrainDrawer_draw(d, chunk, atlas) ==
    LET d1 == IF d.col_lights.some /\ d.col_lights.val = atlas THEN d
              ELSE [set_bind_group(d, 3, bind_group(atlas))
                       EXCEPT !.col_lights = Some(atlas)]
    IN  draw_indexed(set_bind_group(d1, 2, locals_bind_group(chunk.locals)),
                     chunk, atlas)

\* the render pass before the terrain is drawn: slot 3 is empty or holds the
\* atlas of what was drawn before
InitDrawer ==
    /\ TreeIdle
    /\ game = Unused /\ ctrl = Unused /\ plants = Unused
    /\ \E before \in {NoBindGroup} \cup {bind_group(a) : a \in OtherAtlases} :
          draw = [terrain |-> FALSE,
                  col_lights |-> None,
                  slots |-> [slot \in {2, 3} |-> IF slot = 3 THEN before ELSE NoBindGroup],
                  rebinds |-> [slot \in {2, 3} |-> 0],
                  commands |-> <<>>]

\* FirstPassDrawer::draw_terrain
DrawTerrain ==
    /\ ~draw.terrain
    /\ draw' = [draw EXCEPT !.terrain = TRUE, !.col_lights = None]
    /\ UNCHANGED <<detail, index, cursor, res, inserted, ninserts, codec, chain,
                   game, ctrl, plants>>

DrawChunk ==
    /\ draw.terrain
    /\ Len(draw.commands) < MaxDraws
    /\ \E chunk \in Chunks, atlas \in Atlases :
          draw' = TerrainDrawer_draw(draw, chunk, atlas)
    /\ UNCHANGED <<detail, index, cursor, res, inserted, ninserts, codec, chain,
                   game, ctrl, plants>>

NextDrawer == DrawTerrain \/ DrawChunk

SpecDrawer == InitDrawer /\ [][NextDrawer]_vars

----------------------------------------------------------------------------
(* common/src/terrain/sprite.rs: PlantGrowthData of one chunk.  Times are   *)
(* whole days in seconds, so that the f32 arithmetic of the code is exact.  *)
(* An overflowing u8 addition panics where overflow checks are compiled in  *)
(* and wraps where they are not.                                            *)

SECONDS_PER_DAY == 86400
U8_MAX == 255

\* the growth_specs of the sprite behaviour manifest
GrowthSpecs ==
    [k \in {"Wheat", "Flax"} |->
        IF k = "Wheat"
        THEN [start_growth |-> 0, max_growth |-> 3, days_per_growth |-> 1]
        ELSE [start_growth |-> 2, max_growth |-> 200, days_per_growth |-> 2]]

\* SpriteKind::get_growth_spec
get_growth_spec(sprite) ==
    IF sprite \in DOMAIN GrowthSpecs
    THEN [some |-> TRUE, val |-> GrowthSpecs[sprite]]
    ELSE [some |-> FALSE,
          val |-> [start_growth |-> 0, max_growth |-> 0, days_per_growth |-> 0]]

\* the times passed, in days
Days == {0, 1, 3, 300}
Times == {d * SECONDS_PER_DAY : d \in Days}

\* the order in which HashMap::iter_mut visits the kinds
KindOrders == {<<"Wheat", "Flax">>, <<"Flax", "Wheat">>}

\* f32 as u8: saturating
as_u8(x) == IF x < 0 THEN 0 ELSE IF x > U8_MAX THEN U8_MAX ELSE x

\* *growth += inc; *growth = (*growth).min(max) for the amounts from i on
RECURSIVE grow_from(_, _, _, _, _)
grow_from(pk, i, inc, max, checks) ==
    IF i > Len(pk.growth_amounts) \/ pk.fault THEN pk
    ELSE LET sum == pk.growth_amounts[i] + inc
         IN  IF sum > U8_MAX
             THEN IF checks
                  THEN [pk EXCEPT !.fault = TRUE, !.overflowed = TRUE]
                  ELSE LET wrapped == sum % (U8_MAX + 1)
                       IN  grow_from([pk EXCEPT !.overflowed = TRUE,
                                                !.growth_amounts[i] =
                                                    IF wrapped < max THEN wrapped ELSE max],
                                     i + 1, inc, max, checks)
             ELSE grow_from([pk EXCEPT !.growth_amounts[i] =
                                           IF sum < max THEN sum ELSE max],
                            i + 1, inc, max, checks)

\* PlantGrowthPerKind::calculate_growth
PerKind_calculate_growth(pk, sprite, time, checks) ==
    LET spec == get_growth_spec(sprite)
        dt == pk.last_growth_tick - time
        dt_days == dt \div SECONDS_PER_DAY
    IN  IF spec.some /\ dt_days > spec.val.days_per_growth
        THEN grow_from([pk EXCEPT !.last_growth_tick = @ + dt, !.applied = TRUE], 1,
                       as_u8(dt_days \div spec.val.days_per_growth),
                       spec.val.max_growth, checks)
        ELSE [pk EXCEPT !.applied = FALSE]

\* PlantGrowthData::calculate_growth: each kind in turn, until one panics
RECURSIVE calculate_growth_from(_, _, _, _, _)
calculate_growth_from(data, order, i, time, checks) ==
    IF i > Len(order) \/ (i > 1 /\ data[order[i - 1]].fault) THEN data
    ELSE calculate_growth_from(
             [data EXCEPT ![order[i]] =
                 PerKind_calculate_growth(@, order[i], time, checks)],
             order, i + 1, time, checks)

\* PlantGrowthPerKind::new(time) and the pushes of from_fresh_chunk
PerKind_new(sprite, time, count) ==
    [growth_amounts |-> [j \in 1 .. count |-> GrowthSpecs[sprite].start_growth],
     last_growth_tick |-> time,
     applied |-> FALSE,
     overflowed |-> FALSE,
     fault |-> FALSE]

\* PlantGrowthData::from_fresh_chunk: a chunk with one or two plants of each kind
InitPlants ==
    /\ TreeIdle
    /\ game = Unused /\ ctrl = Unused /\ draw = Unused
    /\ \E time \in Times, counts \in [DOMAIN GrowthSpecs -> {1, 2}], checks \in BOOLEAN :
          plants = [data |-> [k \in DOMAIN GrowthSpecs |-> PerKind_new(k, time, counts[k])],
                    overflow_checks |-> checks,
                    ncalls |-> 0]

CalculateGrowth ==
    /\ plants.ncalls < MaxTicks
    /\ \A k \in DOMAIN plants.data : ~plants.data[k].fault
    /\ \E time \in Times, order \in KindOrders :
          plants' = [plants EXCEPT
                        !.data = calculate_growth_from(@, order, 1, time,
                                                       plants.overflow_checks),
                        !.ncalls = @ + 1]
    /\ UNCHANGED <<detail, index, cursor, res, inserted, ninserts, codec, chain,
                   game, ctrl, draw>>

NextPlants == CalculateGrowth

SpecPlants == InitPlants /\ [][NextPlants]_vars

----------------------------------------------------------------------------
(* Claims *)

\* C3: for each key/index pairing and every key inside the fan-out range of a
\* layer using it, uncompress(compress(k)) = k.
C3_RoundTrip ==
    (codec.stage = "done" /\ InFanOut(codec)) => codec.back = codec.key

C3_Witness ==
    /\ codec.stage = "done"
    /\ codec.pairing = "u16"
    /\ codec.key = OWN_PER_PARENT_VecVecLayer - 1
    /\ codec.back = codec.key

\* C4: a key that does not fit the index width is rejected with KeyOutOfRange
\* and never shares its index with a key of the fan-out range.
C4_OverWidthRejected ==
    (codec.stage # "start" /\ codec.stage # "idle" /\ ~FitsIndex(codec)) =>
        /\ codec.out = "KeyOutOfRange"
        /\ \A k \in 0 .. (codec.own - 1) : compress(codec.pairing, k) # codec.idx

\* the (level, aligned key) a call is about
CallCell(c) == <<c.layer, align_to_layer_id(c.pos, c.layer)>>

\* C1: after insert(pos, L, d), a traversal to pos descended to L and
\* materialized yields exactly d.
C1_InsertThenMat ==
    (res.op = "mat" /\ CallCell(res) \in DOMAIN inserted) =>
        (res.out = "Ok" /\ res.detail = inserted[CallCell(res)])

\* the key insert stores the Detail under
TargetKey(c) ==
    IF c.layer = LEVEL_ROOT THEN align_to_layer_id(c.pos, LEVEL_ROOT) ELSE c.key

\* an insert step that hits the cell and the very key an earlier insert of a
\* different Detail used
IsOverwrite ==
    /\ ninserts' = ninserts + 1
    /\ res'.out = "Ok"
    /\ CallCell(res') \in DOMAIN inserted
    /\ inserted[CallCell(res')] # res'.detail
    /\ descend(res'.pos, res'.layer, index).ok
    /\ descend(res'.pos, res'.layer, index).val.key = TargetKey(res')

\* C2: inserting twice at the same (pos, L) with different Details leaves the
\* layer with one entry for that key, holding the later Detail.
C2_Overwrite ==
    [][IsOverwrite =>
        /\ NumEntries(detail'[res'.layer]) = NumEntries(detail[res'.layer])
        /\ DetailStore_load(res'.layer, detail'[res'.layer], TargetKey(res')).val
              = res'.detail]_vars

\* C5: an insert whose child key is >= OWN_PER_PARENT fails with KeyOutOfRange
\* and leaves the tree as it was.
C5_FanOutBound ==
    [][(/\ ninserts' = ninserts + 1
        /\ res'.layer \in DenseLevels
        /\ res'.key >= OWN_PER_PARENT(res'.layer))
       => (res'.out = "KeyOutOfRange" /\ detail' = detail /\ index' = index)]_vars

\* the Index entry a get on the cursor of call c needs is not there
IndexAbsent(c) ==
    LET child == nested(c.layer)
    IN  ~IndexStore_load(child, index[child], c.key).ok

\* C6: a get that finds no Index entry for its key reports PathNotFound.
C6_AbsencePropagation ==
    (res.op = "get" /\ IndexAbsent(res)) => res.out = "PathNotFound"

\* a traversal that has come to its end: materialized, or stopped by a get
TraversalEnded == res.op = "mat" \/ (res.op = "get" /\ res.out # "Ok")

\* C7: with a Detail inserted only at p on layer L, a traversal to a position
\* whose layer-L key differs from p's ends in PathNotFound or DetailAbsent and
\* does not materialize p's Detail.
C7_NoCrossPositionAliasing ==
    \A cell \in DOMAIN inserted :
        (/\ ninserts = 1
         /\ TraversalEnded
         /\ align_to_layer_id(res.pos, cell[1]) # cell[2])
        => (/\ res.out \in {"PathNotFound", "DetailAbsent"}
            /\ res.detail # inserted[cell])

\* C8: every call returns Ok or one of the three recoverable outcomes.
C8_NoFatalFault ==
    res.out \in {"Ok", "KeyOutOfRange", "PathNotFound", "DetailAbsent"}

\* the keys of the layer of level l that a traversal from the root can hold
RECURSIVE ReachableKeys(_)
ReachableKeys(l) ==
    IF l = LEVEL_ROOT THEN DOMAIN index[LEVEL_REGION]
    ELSE IF l = LEVEL_REGION
    THEN {uncompress(IndexType(l), index[l][pk]) : pk \in DOMAIN index[l]}
    ELSE LET parent == CHOOSE pl \in Levels : IsNestable(pl) /\ nested(pl) = l
         IN  {uncompress(IndexType(l), index[l][pk + 1]) :
                 pk \in {k \in ReachableKeys(parent) : k < Len(index[l])}}

\* the Index entries of layer l that point to its key k
Pointers(l, k) ==
    IF l = LEVEL_REGION
    THEN {pk \in DOMAIN index[l] : uncompress(IndexType(l), index[l][pk]) = k}
    ELSE {pk \in 0 .. (Len(index[l]) - 1) :
             uncompress(IndexType(l), index[l][pk + 1]) = k}

\* C9: every Detail entry of a non-root layer can be reached from the root
\* and has exactly one Index entry pointing to it.
C9_IndexDetailConsistency ==
    Running =>
        \A l \in DenseLevels : \A k \in 0 .. (Len(detail[l]) - 1) :
            /\ k \in ReachableKeys(l)
            /\ Cardinality(Pointers(l, k)) = 1

\* C10: two positions with the same aligned key at level L hold the same key
\* at L: the cursor of a traversal to one, and the descent to the other.
C10_KeyDeterminism ==
    cursor.layer # NoLevel =>
        \A q \in PosSet :
            align_to_layer_id(q, cursor.layer)
                = align_to_layer_id(cursor.wanted, cursor.layer)
            => LET r == descend(q, cursor.layer, index)
               IN  r.ok /\ r.val.key = cursor.key /\ r.val.layer = cursor.layer

C10_Witness ==
    /\ cursor.layer = LEVEL_CHUNK
    /\ cursor.wanted = <<5, 5, 5>>
    /\ descend(<<5, 5, 6>>, LEVEL_CHUNK, index).ok
    /\ descend(<<5, 5, 6>>, LEVEL_CHUNK, index).val.key = cursor.key

SameStoreAgain ==
    /\ ninserts' = ninserts + 1
    /\ res.op = "dstore" /\ res'.op = "dstore"
    /\ res.out = "Ok" /\ res'.out = "Ok"
    /\ res'.layer = res.layer
    /\ res'.pos = res.pos
    /\ res'.key = res.key
    /\ res'.detail = res.detail

\* C13: DetailStore::store of the same (key, detail) twice in a row leaves the
\* store as the first call left it.
C13_StoreIdempotent ==
    [][SameStoreAgain => detail' = detail]_vars

\* C14: on a Vec-backed layer, store(key, detail) with key beyond the current
\* length succeeds and a following load(key) returns detail.
C14_StoreGrows ==
    [][(/\ ninserts' = ninserts + 1
        /\ res'.op = "dstore"
        /\ res'.layer \in DenseLevels
        /\ res'.key > Len(detail[res'.layer]))
       => LET r == DetailStore_load(res'.layer, detail'[res'.layer], res'.key)
          IN  res'.out = "Ok" /\ r.ok /\ r.val = res'.detail]_vars

\* C15: a materialized query returns what a map from (level, aligned key) to
\* Detail holds after the inserts made so far: the Detail, or its absence.
C15_MapModel ==
    res.op = "mat" =>
        IF CallCell(res) \in DOMAIN inserted
        THEN res.out = "Ok" /\ res.detail = inserted[CallCell(res)]
        ELSE res.out \in {"PathNotFound", "DetailAbsent"}

StrictlyDecreasing(c) ==
    \A i \in 1 .. (Len(c) - 1) : c[i].L > c[i + 1].L

\* C16: the levels strictly decrease along the nesting chain, in ExampleDelta
\* and in every chain of layers that can be composed.
C16_LevelsDecrease ==
    StrictlyDecreasing(ExampleDelta) /\ StrictlyDecreasing(chain)

\* C17: on the freshly built, empty ExampleDelta, trav(pos) followed by three
\* get() and mat() makes every call return.
C17_EmptyTreeTraversal ==
    (ninserts = 0 /\ res.op \in {"trav", "get", "mat"}) => res.out = "Ok"

\* the step is a call of trav: the only one that makes a cursor
TravStep ==
    /\ res'.op = "trav"
    /\ cursor.layer = NoLevel
    /\ cursor'.layer # NoLevel

\* the step is a call of get on the live cursor
GetStep ==
    /\ res'.op = "get"
    /\ res'.layer = cursor.layer
    /\ cursor'.layer # cursor.layer

\* C18: trav(pos) returns a cursor on the root layer with wanted = pos and
\* key = pos aligned to the root's LEVEL, whatever the stores hold.
C18_TravAtRoot ==
    [][TravStep =>
        /\ res'.out = "Ok"
        /\ cursor'.layer = ExampleDelta[1].L
        /\ cursor'.wanted = res'.pos
        /\ \A i \in 1 .. 3 :
              cursor'.key[i]
                  = res'.pos[i] - (res'.pos[i] % two_pow_u(ExampleDelta[1].L))]_vars

C18_Witness ==
    /\ res.op = "trav"
    /\ res.pos = <<5, 5, 6>>
    /\ cursor.key = <<0, 0, 0>>
    /\ detail[LEVEL_ROOT] = EmptyMap
    /\ index[LEVEL_REGION] = EmptyMap

\* the handle the Index collection of level l holds at the parent key k
HandleAt(l, k) ==
    IF l = LEVEL_REGION THEN index[l][k] ELSE index[l][k + 1]

\* the level of the layer nested in the layer of level l, read off ExampleDelta
ChildLevel(l) ==
    LET i == CHOOSE j \in 1 .. Len(ExampleDelta) : ExampleDelta[j].L = l
    IN  ExampleDelta[i + 1].L

\* Depth of a level in ExampleDelta: the root is 0
DepthOf(l) ==
    (CHOOSE j \in 1 .. Len(ExampleDelta) : ExampleDelta[j].L = l) - 1

\* C19: a get on a cursor at layer N with key K returns a cursor on N's nested
\* layer whose key is the handle stored at K, uncompressed, with wanted kept.
C19_GetReadsHandle ==
    [][(GetStep /\ res'.out = "Ok") =>
        /\ cursor'.layer = ChildLevel(cursor.layer)
        /\ cursor'.key = HandleAt(ChildLevel(cursor.layer), cursor.key)
        /\ cursor'.wanted = cursor.wanted]_vars

C19_Witness ==
    /\ res.op = "get"
    /\ res.out = "Ok"
    /\ cursor.layer = LEVEL_LEAF
    /\ cursor.key = 1

C21_HandlesBelowFanOut ==
    \A l \in DenseLevels :
        \A k \in DOMAIN index[l] : index[l][k] < OWN_PER_PARENT(l)

\* C22: trav and get leave every Detail and Index collection as it was, and
\* every cursor of one traversal carries the position passed to trav.
C22_TraversalReadOnly ==
    [][/\ (TravStep \/ GetStep) => (detail' = detail /\ index' = index)
       /\ TravStep => cursor'.wanted = res'.pos
       /\ (GetStep /\ res'.out = "Ok") =>
            (cursor'.wanted = cursor.wanted /\ cursor'.wanted = res'.pos)]_vars

C22_Witness ==
    /\ res.op = "get"
    /\ res.out = "Ok"
    /\ cursor.layer = LEVEL_CHUNK
    /\ cursor.wanted = <<5, 5, 6>>
    /\ Len(detail[LEVEL_CHUNK]) > 0

\* the keys a collection answers a load for
KeysOf(hashed, coll) ==
    IF hashed THEN DOMAIN coll ELSE 0 .. (Len(coll) - 1)

\* store(k, v) on coll gave coll2: load(k) is v, load(k2) as before elsewhere
StoreFrame(hashed, coll, coll2, k, v) ==
    /\ (IF hashed THEN HashGet(coll2, k) ELSE VecGet(coll2, k)) = Return(v)
    /\ \A k2 \in KeysOf(hashed, coll) \ {k} :
          (IF hashed THEN HashGet(coll2, k2) ELSE VecGet(coll2, k2))
              = (IF hashed THEN HashGet(coll, k2) ELSE VecGet(coll, k2))

\* C23: a store(k, v) that returns makes load(k) return v and leaves load(k2)
\* unchanged for every other key k2 present before, in DetailStore and
\* IndexStore of every layer.
C23_StoreFrame ==
    [][(ninserts' = ninserts + 1 /\ res'.out = "Ok") =>
        LET l == res'.layer
        IN  /\ res'.op = "dstore" =>
                StoreFrame(l = LEVEL_ROOT, detail[l], detail'[l],
                           IF l = LEVEL_ROOT THEN res'.pos ELSE res'.key, res'.detail)
            /\ res'.op = "istore" =>
                StoreFrame(l = LEVEL_REGION, index[l], index'[l],
                           IF l = LEVEL_REGION THEN res'.pos ELSE res'.key, res'.detail)]_vars

\* C24: in ExampleDelta the OWN_PER_PARENT of each non-root layer is the
\* number of its cells in one parent cell, (2^(parent LEVEL - own LEVEL))^3,
\* and the largest handle, OWN_PER_PARENT - 1, compresses into the layer's
\* index type unchanged.
C24_FanOutFromLevels ==
    /\ \A i \in 2 .. Len(chain) :
          OWN_PER_PARENT(chain[i].L) = (2 ^ (chain[i - 1].L - chain[i].L)) ^ 3
    /\ (/\ codec.stage \in {"compressed", "done"}
        /\ \E i \in 2 .. Len(chain) :
              /\ codec.pairing = IndexType(chain[i].L)
              /\ codec.own = OWN_PER_PARENT(chain[i].L)
              /\ codec.key = codec.own - 1)
       => codec.idx = codec.key

C24_Witness ==
    /\ chain = ExampleDelta
    /\ codec.stage = "compressed"
    /\ codec.pairing = IndexType(LEVEL_CHUNK)
    /\ codec.own = OWN_PER_PARENT(LEVEL_CHUNK)
    /\ codec.key = OWN_PER_PARENT_VecVecNestLayer - 1
    /\ codec.idx = codec.key

\* the step is the handling of one in-game message
MsgStep == game'.nmsgs = game.nmsgs + 1

\* C25: with a maximum configured, handling SetViewDistance(v) stores
\* min(v, max) and sends SetViewDistance(max) exactly when v > max; with none
\* configured it stores v and sends nothing; no other message touches the
\* view distance, so it never exceeds the maximum.
C25_ViewDistanceCap ==
    [][MsgStep =>
        LET m == game'.last.msg
            max == game.max_view_distance
        IN  IF game.has_presence /\ m.type = "SetViewDistance"
            THEN IF max.some
                 THEN /\ game'.view_distance = (IF m.n < max.val THEN m.n ELSE max.val)
                      /\ game'.view_distance <= max.val
                      /\ m.n > max.val =>
                            /\ Len(game'.sent) = Len(game.sent) + 1
                            /\ SubSeq(game'.sent, 1, Len(game.sent)) = game.sent
                            /\ game'.sent[Len(game'.sent)].type = "SetViewDistance"
                            /\ game'.sent[Len(game'.sent)].n = max.val
                      /\ m.n <= max.val => game'.sent = game.sent
                 ELSE /\ game'.view_distance = m.n
                      /\ game'.sent = game.sent
            ELSE game'.view_distance = game.view_distance]_vars

C25_Witness ==
    /\ game.last.msg.type = "SetViewDistance"
    /\ game.last.msg.n = 3
    /\ game.max_view_distance = Some(2)
    /\ game.view_distance = 2
    /\ Len(game.sent) = 1
    /\ game.sent[1].type = "SetViewDistance"

\* the entity may build at pos: CanBuild enabled and pos inside an existing
\* area the component lists
MayBuildAt(g, pos) ==
    /\ g.has_can_build
    /\ g.enabled
    /\ \E a \in g.build_areas : a \in DOMAIN Areas /\ contains_point(Areas[a], pos)

\* C26: try_set is called only for BreakBlock / PlaceBlock of an entity that
\* may build at pos, BreakBlock only where terrain.get(pos) succeeds and with
\* the vacant form of the old block; without a call block_changes stays.
C26_BuildPermission ==
    [][MsgStep =>
        LET m == game'.last.msg
            old == Len(game.tries)
        IN  /\ SubSeq(game'.tries, 1, old) = game.tries
            /\ Len(game'.tries) > old =>
                  /\ m.type \in {"BreakBlock", "PlaceBlock"}
                  /\ MayBuildAt(game, m.pos)
                  /\ m.type = "BreakBlock" => terrain_get(m.pos).some
                  /\ \A i \in (old + 1) .. Len(game'.tries) :
                        /\ game'.tries[i].pos = m.pos
                        /\ game'.tries[i].block =
                              IF m.type = "PlaceBlock" THEN m.block
                              ELSE into_vacant(TerrainGrid[m.pos])
            /\ Len(game'.tries) = old => game'.block_changes = game.block_changes]_vars

C26_Witness ==
    /\ game.last.msg.type = "BreakBlock"
    /\ game.nmsgs = 1
    /\ Len(game.tries) = 2
    /\ game.tries[1].set /\ ~game.tries[2].set
    /\ game.block_changes[<<1, 1, 1>>] = Block("Rock", FALSE)

\* C27: without a Presence every message returns Ok(()) and changes nothing.
C27_NoPresenceIgnored ==
    [][(MsgStep /\ ~game.has_presence) =>
        /\ game'.last.out = "Ok"
        /\ game' = [game EXCEPT !.nmsgs = game'.nmsgs, !.last = game'.last]]_vars

C27_Witness ==
    /\ ~game.has_presence
    /\ game.has_can_build /\ game.enabled /\ game.build_areas = {1, 2}
    /\ game.nmsgs = 2
    /\ game.last.msg.type = "PlaceBlock"
    /\ game.last.msg.pos = <<1, 1, 1>>
    /\ game.block_changes = EmptyMap
    /\ game.events = <<>> /\ game.sent = <<>>

\* the control events of a queue that emit: all but a Mount or Interact whose
\* uid resolves to no entity
Emitting(events) ==
    SelectSeq(events,
              LAMBDA ev : ev.type \in {"Mount", "Interact"} => ev.arg \in DOMAIN UidEntity)

\* the server events on the bus that entity emitted
EmittedBy(bus, entity) == SelectSeq(bus, LAMBDA sev : sev.entity = entity)

\* the kind of server event a control event turns into
ServerKind(type) ==
    CASE type = "RemoveBuff" -> "Buff"
      [] type = "Interact" -> "NpcInteract"
      [] type = "PerformTradeAction" -> "ProcessTradeAction"
      [] OTHER -> type

\* C28: one run leaves every events queue empty and emits, per entity, one
\* server event for each queued control event in the order queued, leaving
\* out the Mount and Interact events whose uid resolves to no entity.
C28_ControllerEvents ==
    [][ctrl'.runs = ctrl.runs + 1 =>
        /\ \A e \in Entities : ctrl'.controllers[e].events = <<>>
        /\ \A e \in Entities :
              LET want == Emitting(ctrl.controllers[e].events)
                  got == EmittedBy(ctrl'.bus, e)
              IN  /\ Len(got) = Len(want)
                  /\ \A i \in 1 .. Len(want) : got[i].type = ServerKind(want[i].type)
        /\ Len(ctrl'.bus) = Len(Emitting(ctrl.controllers[1].events))
                                + Len(Emitting(ctrl.controllers[2].events))]_vars

C28_Witness ==
    /\ ctrl.runs = 1
    /\ ctrl.controllers[1].events = <<>>
    /\ ctrl.bus = <<ServerEvent("Unmount", 1, 0), ServerEvent("Mount", 1, 2),
                    ServerEvent("Respawn", 2, 0)>>

\* C29: at every chunk's draw command slot 3 holds the bind group of the
\* atlas passed for it; slot 3 is rebound exactly when that atlas is not the
\* one recorded by the draw before (or none is recorded); after the draw
\* self.col_lights is the atlas bound in slot 3.
C29_AtlasBinding ==
    [][Len(draw'.commands) = Len(draw.commands) + 1 =>
        LET cmd == draw'.commands[Len(draw'.commands)]
            same == draw.col_lights.some /\ draw.col_lights.val = cmd.atlas
        IN  /\ cmd.slot3 = bind_group(cmd.atlas)
            /\ draw'.rebinds[3] = draw.rebinds[3] + (IF same THEN 0 ELSE 1)
            /\ draw'.col_lights = Some(cmd.atlas)
            /\ draw'.slots[3] = bind_group(draw'.col_lights.val)]_vars

C29_Witness ==
    /\ Len(draw.commands) = 3
    /\ draw.commands[1].atlas = 1
    /\ draw.commands[2].atlas = 1
    /\ draw.commands[3].atlas = 2
    /\ draw.rebinds[3] = 2
    /\ draw.commands[3].slot3 = bind_group(2)

\* C30: a calculate_growth call that applies growth leaves every growth
\* amount of the kind at most max_growth, and no u8 addition overflows.
C30_GrowthBounded ==
    \A k \in DOMAIN plants.data :
        /\ ~plants.data[k].overflowed
        /\ plants.data[k].applied =>
              \A j \in 1 .. Len(plants.data[k].growth_amounts) :
                  plants.data[k].growth_amounts[j] <= GrowthSpecs[k].max_growth

====
